---- MODULE Spec2Model ----
(***************************************************************************)
(* A model of the typesense-go client: the collection, override and        *)
(* API-key operations of Client.  Every operation is one synchronous call  *)
(* that builds a request, hands it to the transport collaborator once and  *)
(* maps the transport's outcome (an error, or a status code and a body) to *)
(* a result and an error.  The transport's outcome is an input of the      *)
(* call.  A response body is modelled by the JSON value it holds (or by    *)
(* the fact that it holds none), and encoding/json's Marshal and Decode    *)
(* are modelled by what they do on the Go types of the source.             *)
(***************************************************************************)
EXTENDS Integers, Sequences, FiniteSets, TLC

VARIABLES pc, op, args, masterNode, calls, resp, result, err, bodyClosed,
          goRuntime, issued, procs, wire

vars == <<pc, op, args, masterNode, calls, resp, result, err, bodyClosed,
          goRuntime, issued, procs, wire>>

(***************************************************************************)
(* Bounds of the model.                                                    *)
(***************************************************************************)
\* longest field list of a CollectionSchema
MaxFields == 2
\* longest array in a response body (collections, overrides, API keys)
MaxItems == 2
\* longest prefix of sampleKey given to GenerateScopedSearchKey as parent key
MaxKeyLen == 4

(***************************************************************************)
(* net/http status codes the operations compare against.                   *)
(***************************************************************************)
StatusOK == 200
StatusCreated == 201
StatusBadRequest == 400
StatusUnauthorized == 401
StatusNotFound == 404
StatusConflict == 409

collectionsEndpoint == "collections"

(***************************************************************************)
(* Go values.  A slice is nil or a (possibly empty) sequence; a pointer is *)
(* nil or points to a value.                                               *)
(***************************************************************************)
NilSlice == [isNil |-> TRUE, elems |-> <<>>]
Slice(s) == [isNil |-> FALSE, elems |-> s]
len(s) == Len(s.elems)

NilPtr == [t |-> "nil"]
Ptr(v) == [t |-> "ptr", v |-> v]
\* the result of an operation that returns only an error
NoValue == [t |-> "none"]

SeqsUpTo(S, n) == UNION {[1..k -> S] : k \in 0..n}
SlicesUpTo(S, n) == {NilSlice} \cup {Slice(s) : s \in SeqsUpTo(S, n)}

(***************************************************************************)
(* Errors.  An error value is its kind and its message.                    *)
(***************************************************************************)
NilErr == [kind |-> "nil", msg |-> ""]
Sentinel(name) == [kind |-> "sentinel", msg |-> name]
ErrCollectionNameRequired == Sentinel("collection name is required")
ErrCollectionFieldsRequired == Sentinel("collection fields are required")
ErrCollectionDuplicate == Sentinel("collection already exists")
ErrCollectionNotFound == Sentinel("collection not found")
ErrUnauthorized == Sentinel("unauthorized")
\* errors.New(text)
errorsNew(text) == [kind |-> "errorString", msg |-> text]
\* the APIError struct used as an error value
APIError(Message) == [kind |-> "APIError", msg |-> Message]
\* the errors of json.Decoder.Decode: io.EOF, *SyntaxError, *UnmarshalTypeError
DecodeError(why) == [kind |-> "decode", msg |-> why]
\* the errors the transport collaborator may return
TransportError(e) == [kind |-> "transport", msg |-> e]
TransportErrors == {TransportError("connection refused"), TransportError("timeout")}

(***************************************************************************)
(* JSON values, as a body carries them.  JEmpty is a body with no bytes    *)
(* and JBad a body that is no JSON text.                                   *)
(***************************************************************************)
JEmpty == [t |-> "empty"]
JBad == [t |-> "bad"]
JNull == [t |-> "null"]
JNum(n) == [t |-> "num", n |-> n]
JStr(s) == [t |-> "str", s |-> s]
JBool(b) == [t |-> "bool", b |-> b]
JArr(a) == [t |-> "arr", a |-> a]
JObj(o) == [t |-> "obj", o |-> o]
NoMembers == [k \in {} |-> JNull]

\* the member of object o under key k; an absent member leaves the target
\* at its zero value, exactly as a null member does
Member(o, k) == IF k \in DOMAIN o THEN o[k] ELSE JNull

(***************************************************************************)
(* encoding/json, decoding.  A decoder yields ok (no UnmarshalTypeError)   *)
(* and the value stored in a target that starts at its zero value.  A JSON *)
(* null stores nothing; an object member the target has no field for is    *)
(* skipped; a value of the wrong JSON kind is a type error.                *)
(***************************************************************************)
Decoded(ok, v) == [ok |-> ok, v |-> v]

\* decoding into a target of the named Go type, defined below by the type
RECURSIVE DecAs(_, _)

DecString(j) ==
    IF j.t = "str" THEN Decoded(TRUE, j.s)
    ELSE Decoded(j.t = "null", "")

DecInt(j) ==
    IF j.t = "num" THEN Decoded(TRUE, j.n)
    ELSE Decoded(j.t = "null", 0)

DecBool(j) ==
    IF j.t = "bool" THEN Decoded(TRUE, j.b)
    ELSE Decoded(j.t = "null", FALSE)

\* a slice target: null leaves it nil, an array fills it element by element
DecSlice(elem, j) ==
    IF j.t = "arr"
    THEN LET ds == [i \in 1..Len(j.a) |-> DecAs(elem, j.a[i])]
         IN  Decoded(\A i \in 1..Len(j.a) : ds[i].ok,
                     Slice([i \in 1..Len(j.a) |-> ds[i].v]))
    ELSE Decoded(j.t = "null", NilSlice)

\* a pointer target: null leaves it nil, anything else allocates
DecPtr(elem, j) ==
    IF j.t = "null" THEN Decoded(TRUE, NilPtr)
    ELSE LET d == DecAs(elem, j) IN Decoded(d.ok, Ptr(d.v))

ZeroCollectionField == [Name |-> "", Type |-> "", Facet |-> FALSE]

DecCollectionField(j) ==
    IF j.t = "obj"
    THEN LET n == DecString(Member(j.o, "name"))
             ty == DecString(Member(j.o, "type"))
             f == DecBool(Member(j.o, "facet"))
         IN  Decoded(n.ok /\ ty.ok /\ f.ok,
                     [Name |-> n.v, Type |-> ty.v, Facet |-> f.v])
    ELSE Decoded(j.t = "null", ZeroCollectionField)

ZeroCollectionSchema == [Name |-> "", Fields |-> NilSlice, DefaultSortingField |-> ""]
ZeroCollection == [CollectionSchema |-> ZeroCollectionSchema, NumDocuments |-> 0, CreatedAt |-> 0]

\* Collection with CreatedAt tagged "createdAt"
DecCollection_WrongTag(j) ==
    IF j.t = "obj"
    THEN LET n == DecString(Member(j.o, "name"))
             fs == DecSlice("CollectionField", Member(j.o, "fields"))
             d == DecString(Member(j.o, "default_sorting_field"))
             nd == DecInt(Member(j.o, "num_documents"))
             ca == DecInt(Member(j.o, "createdAt"))
         IN  Decoded(n.ok /\ fs.ok /\ d.ok /\ nd.ok /\ ca.ok,
                     [CollectionSchema |->
                          [Name |-> n.v, Fields |-> fs.v, DefaultSortingField |-> d.v],
                      NumDocuments |-> nd.v, CreatedAt |-> ca.v])
    ELSE Decoded(j.t = "null", ZeroCollection)

\* Collection embeds CollectionSchema: its members are read from the same object
DecCollection(j) ==
    IF j.t = "obj"
    THEN LET n == DecString(Member(j.o, "name"))
             fs == DecSlice("CollectionField", Member(j.o, "fields"))
             d == DecString(Member(j.o, "default_sorting_field"))
             nd == DecInt(Member(j.o, "num_documents"))
             ca == DecInt(Member(j.o, "created_at"))
         IN  Decoded(n.ok /\ fs.ok /\ d.ok /\ nd.ok /\ ca.ok,
                     [CollectionSchema |->
                          [Name |-> n.v, Fields |-> fs.v, DefaultSortingField |-> d.v],
                      NumDocuments |-> nd.v, CreatedAt |-> ca.v])
    ELSE Decoded(j.t = "null", ZeroCollection)

ZeroOverrideDocID == [ID |-> "", Position |-> NilPtr]

DecOverrideDocID(j) ==
    IF j.t = "obj"
    THEN LET i == DecString(Member(j.o, "id"))
             p == DecPtr("int", Member(j.o, "position"))
         IN  Decoded(i.ok /\ p.ok, [ID |-> i.v, Position |-> p.v])
    ELSE Decoded(j.t = "null", ZeroOverrideDocID)

ZeroOverrideRule == [Match |-> "", Query |-> ""]

DecOverrideRule(j) ==
    IF j.t = "obj"
    THEN LET m == DecString(Member(j.o, "match"))
             q == DecString(Member(j.o, "query"))
         IN  Decoded(m.ok /\ q.ok, [Match |-> m.v, Query |-> q.v])
    ELSE Decoded(j.t = "null", ZeroOverrideRule)

ZeroOverride == [ID |-> "", Excludes |-> NilSlice, Includes |-> NilSlice, Rule |-> ZeroOverrideRule]

DecOverrideDocIDPtr(j) == DecPtr("OverrideDocID", j)

DecOverride(j) ==
    IF j.t = "obj"
    THEN LET i == DecString(Member(j.o, "id"))
             ex == DecSlice("*OverrideDocID", Member(j.o, "excludes"))
             inc == DecSlice("*OverrideDocID", Member(j.o, "includes"))
             r == DecOverrideRule(Member(j.o, "rule"))
         IN  Decoded(i.ok /\ ex.ok /\ inc.ok /\ r.ok,
                     [ID |-> i.v, Excludes |-> ex.v, Includes |-> inc.v, Rule |-> r.v])
    ELSE Decoded(j.t = "null", ZeroOverride)

ZeroAPIKey == [Actions |-> NilSlice, Collections |-> NilSlice, Description |-> "", ID |-> 0, Value |-> ""]

DecAPIKey(j) ==
    IF j.t = "obj"
    THEN LET a == DecSlice("string", Member(j.o, "actions"))
             c == DecSlice("string", Member(j.o, "collections"))
             d == DecString(Member(j.o, "description"))
             i == DecInt(Member(j.o, "id"))
             v == DecString(Member(j.o, "value"))
         IN  Decoded(a.ok /\ c.ok /\ d.ok /\ i.ok /\ v.ok,
                     [Actions |-> a.v, Collections |-> c.v, Description |-> d.v,
                      ID |-> i.v, Value |-> v.v])
    ELSE Decoded(j.t = "null", ZeroAPIKey)

\* APIResponse and APIError: a struct with the one member "message"
DecAPIResponse(j) ==
    IF j.t = "obj"
    THEN LET m == DecString(Member(j.o, "message"))
         IN  Decoded(m.ok, [Message |-> m.v])
    ELSE Decoded(j.t = "null", [Message |-> ""])

DecAPIError(j) == DecAPIResponse(j)

DecCollectionPtr(j) == DecPtr("Collection", j)
DecOverridePtr(j) == DecPtr("Override", j)
DecAPIKeyPtr(j) == DecPtr("APIKey", j)

\* var collections []*Collection
DecCollections(j) == DecSlice("*Collection", j)
\* var apiKeys []*APIKey
DecAPIKeys(j) == DecSlice("*APIKey", j)

\* var resBody map[string][]*Override: null leaves the map nil (no keys), an
\* object stores every member, each of which must decode as []*Override
DecOverridesMap(j) ==
    IF j.t = "obj"
    THEN LET ds == [k \in DOMAIN j.o |-> DecSlice("*Override", j.o[k])]
         IN  Decoded(\A k \in DOMAIN j.o : ds[k].ok, [k \in DOMAIN j.o |-> ds[k].v])
    ELSE Decoded(j.t = "null", [k \in {} |-> NilSlice])

DecAs(type, j) ==
    CASE type = "string" -> DecString(j)
      [] type = "int" -> DecInt(j)
      [] type = "bool" -> DecBool(j)
      [] type = "CollectionField" -> DecCollectionField(j)
      [] type = "Collection" -> DecCollection(j)
      [] type = "*Collection" -> DecCollectionPtr(j)
      [] type = "[]*Collection" -> DecCollections(j)
      [] type = "OverrideDocID" -> DecOverrideDocID(j)
      [] type = "*OverrideDocID" -> DecOverrideDocIDPtr(j)
      [] type = "Override" -> DecOverride(j)
      [] type = "*Override" -> DecOverridePtr(j)
      [] type = "map[string][]*Override" -> DecOverridesMap(j)
      [] type = "APIKey" -> DecAPIKey(j)
      [] type = "*APIKey" -> DecAPIKeyPtr(j)
      [] type = "[]*APIKey" -> DecAPIKeys(j)
      [] type = "APIResponse" -> DecAPIResponse(j)
      [] type = "APIError" -> DecAPIError(j)

\* json.NewDecoder(body).Decode(&target) for a target of the named type at
\* its zero value: the error returned and the target
Decode(type, body) ==
    IF body.t = "empty" THEN [err |-> DecodeError("EOF"), v |-> DecAs(type, JNull).v]
    ELSE IF body.t = "bad" THEN [err |-> DecodeError("syntax"), v |-> DecAs(type, JNull).v]
    ELSE LET d == DecAs(type, body)
         IN  [err |-> IF d.ok THEN NilErr ELSE DecodeError("type"), v |-> d.v]

(***************************************************************************)
(* encoding/json, encoding.  A nil slice or pointer is null; a member      *)
(* tagged omitempty is left out when it is nil or empty.                   *)
(***************************************************************************)
\* encoding a value of the named Go type, defined below by the type
RECURSIVE MarshalAs(_, _)

MarshalSlice(elem, s) ==
    IF s.isNil THEN JNull ELSE JArr([i \in 1..Len(s.elems) |-> MarshalAs(elem, s.elems[i])])

MarshalPtr(elem, p) == IF p.t = "nil" THEN JNull ELSE MarshalAs(elem, p.v)

MarshalCollectionField(f) ==
    JObj([name |-> JStr(f.Name), type |-> JStr(f.Type), facet |-> JBool(f.Facet)])

MarshalCollectionSchema(s) ==
    JObj([name |-> JStr(s.Name),
          fields |-> MarshalSlice("CollectionField", s.Fields),
          default_sorting_field |-> JStr(s.DefaultSortingField)])

MarshalCollection(c) ==
    JObj([name |-> JStr(c.CollectionSchema.Name),
          fields |-> MarshalSlice("CollectionField", c.CollectionSchema.Fields),
          default_sorting_field |-> JStr(c.CollectionSchema.DefaultSortingField),
          num_documents |-> JNum(c.NumDocuments),
          created_at |-> JNum(c.CreatedAt)])

MarshalOverrideDocID(d) ==
    JObj(("id" :> JStr(d.ID))
         @@ (IF d.Position.t = "nil" THEN NoMembers
             ELSE ("position" :> JNum(d.Position.v))))

MarshalOverrideDocIDPtr(p) == MarshalPtr("OverrideDocID", p)

MarshalOverride(o) ==
    JObj(("id" :> JStr(o.ID))
         @@ (IF len(o.Excludes) = 0 THEN NoMembers
             ELSE ("excludes" :> MarshalSlice("*OverrideDocID", o.Excludes)))
         @@ (IF len(o.Includes) = 0 THEN NoMembers
             ELSE ("includes" :> MarshalSlice("*OverrideDocID", o.Includes)))
         @@ ("rule" :> JObj([match |-> JStr(o.Rule.Match), query |-> JStr(o.Rule.Query)])))

MarshalAPIKey(k) ==
    JObj([actions |-> MarshalSlice("string", k.Actions),
          collections |-> MarshalSlice("string", k.Collections),
          description |-> JStr(k.Description),
          id |-> JNum(k.ID),
          value |-> JStr(k.Value)])

MarshalAs(type, v) ==
    CASE type = "string" -> JStr(v)
      [] type = "CollectionField" -> MarshalCollectionField(v)
      [] type = "OverrideDocID" -> MarshalOverrideDocID(v)
      [] type = "*OverrideDocID" -> MarshalOverrideDocIDPtr(v)

(***************************************************************************)
(* The transport collaborator's outcome for one request: an error, or a    *)
(* response with a status code and a body.                                 *)
(***************************************************************************)
ErrOut(e) == [t |-> "err", err |-> e]
Response(code, body) == [t |-> "resp", StatusCode |-> code, Body |-> body]
NoResp == [t |-> "none"]

\* the statuses the operations compare against, and 500, which none maps
Statuses ==
    {StatusOK, StatusCreated, StatusBadRequest, StatusUnauthorized,
     StatusNotFound, StatusConflict, 500}

Outcomes(Bodies) ==
    {ErrOut(e) : e \in TransportErrors}
        \cup {Response(c, b) : c \in Statuses, b \in Bodies}

(***************************************************************************)
(* Requests.  Every operation formats its URL from the node descriptor and *)
(* the resource path; a URL is modelled by the sequence of the formatted   *)
(* parts.  apiCall attaches the API key and hands the request to the       *)
(* transport once.                                                         *)
(***************************************************************************)
URL(path) == <<masterNode.Protocol, masterNode.Host, masterNode.Port>> \o path

\* the %d verb of fmt.Sprintf on the ids of the model
FormatInt(n) == <<"0", "1", "2", "3">>[n + 1]

\* a request without a body
NoBody == [t |-> "nobody"]

\* http.NewRequest, req.Header.Add(defaultHeaderKey, c.masterNode.APIKey):
\* the request c.httpClient.Do receives
NewRequest(method, url, body) ==
    [method |-> method, url |-> url, body |-> body, apiKey |-> masterNode.APIKey]

\* resp, err := c.apiCall(method, url, body): the requests it hands to the
\* transport (one) and the transport's outcome out, returned as it is
apiCall(method, url, body, out) ==
    [sent |-> <<NewRequest(method, url, body)>>, out |-> out]

\* what an operation did: the requests the transport received, the value and
\* the error returned, and whether the response body was closed
Ret(c, r, e, closed) == [calls |-> c, result |-> r, err |-> e, closed |-> closed]

(***************************************************************************)
(* Collection operations (collections.go).                                 *)
(***************************************************************************)
\* CreateCollection with the two checks in the other order
CreateCollection_FieldsFirst(collectionSchema, out) ==
    IF len(collectionSchema.Fields) = 0
    THEN Ret(<<>>, NilPtr, ErrCollectionFieldsRequired, FALSE)
    ELSE IF collectionSchema.Name = ""
    THEN Ret(<<>>, NilPtr, ErrCollectionNameRequired, FALSE)
    ELSE LET call == apiCall("POST", URL(<<collectionsEndpoint>>),
                             MarshalCollectionSchema(collectionSchema), out)
         IN  IF call.out.t = "err" THEN Ret(call.sent, NilPtr, call.out.err, FALSE)
             ELSE IF call.out.StatusCode = StatusConflict
             THEN Ret(call.sent, NilPtr, ErrCollectionDuplicate, TRUE)
             ELSE IF call.out.StatusCode = StatusUnauthorized
             THEN Ret(call.sent, NilPtr, ErrUnauthorized, TRUE)
             ELSE IF call.out.StatusCode = StatusBadRequest
             THEN LET apiResponse == Decode("APIResponse", call.out.Body)
                  IN  IF apiResponse.err # NilErr
                      THEN Ret(call.sent, NilPtr, apiResponse.err, TRUE)
                      ELSE Ret(call.sent, NilPtr, errorsNew(apiResponse.v.Message), TRUE)
             ELSE LET collectionResponse == Decode("Collection", call.out.Body)
                  IN  IF collectionResponse.err # NilErr
                      THEN Ret(call.sent, NilPtr, collectionResponse.err, TRUE)
                      ELSE Ret(call.sent, Ptr(collectionResponse.v), NilErr, TRUE)

\* CreateCollection checking the field list against nil instead of its length
CreateCollection_NilFields(collectionSchema, out) ==
    IF collectionSchema.Name = ""
    THEN Ret(<<>>, NilPtr, ErrCollectionNameRequired, FALSE)
    ELSE IF collectionSchema.Fields.isNil
    THEN Ret(<<>>, NilPtr, ErrCollectionFieldsRequired, FALSE)
    ELSE LET call == apiCall("POST", URL(<<collectionsEndpoint>>),
                             MarshalCollectionSchema(collectionSchema), out)
         IN  IF call.out.t = "err" THEN Ret(call.sent, NilPtr, call.out.err, FALSE)
             ELSE IF call.out.StatusCode = StatusConflict
             THEN Ret(call.sent, NilPtr, ErrCollectionDuplicate, TRUE)
             ELSE IF call.out.StatusCode = StatusUnauthorized
             THEN Ret(call.sent, NilPtr, ErrUnauthorized, TRUE)
             ELSE IF call.out.StatusCode = StatusBadRequest
             THEN LET apiResponse == Decode("APIResponse", call.out.Body)
                  IN  IF apiResponse.err # NilErr
                      THEN Ret(call.sent, NilPtr, apiResponse.err, TRUE)
                      ELSE Ret(call.sent, NilPtr, errorsNew(apiResponse.v.Message), TRUE)
             ELSE LET collectionResponse == Decode("Collection", call.out.Body)
                  IN  IF collectionResponse.err # NilErr
                      THEN Ret(call.sent, NilPtr, collectionResponse.err, TRUE)
                      ELSE Ret(call.sent, Ptr(collectionResponse.v), NilErr, TRUE)

\* CreateCollection without the branch for http.StatusConflict
CreateCollection_NoConflict(collectionSchema, out) ==
    IF collectionSchema.Name = ""
    THEN Ret(<<>>, NilPtr, ErrCollectionNameRequired, FALSE)
    ELSE IF len(collectionSchema.Fields) = 0
    THEN Ret(<<>>, NilPtr, ErrCollectionFieldsRequired, FALSE)
    ELSE LET call == apiCall("POST", URL(<<collectionsEndpoint>>),
                             MarshalCollectionSchema(collectionSchema), out)
         IN  IF call.out.t = "err" THEN Ret(call.sent, NilPtr, call.out.err, FALSE)
             ELSE IF call.out.StatusCode = StatusUnauthorized
             THEN Ret(call.sent, NilPtr, ErrUnauthorized, TRUE)
             ELSE IF call.out.StatusCode = StatusBadRequest
             THEN LET apiResponse == Decode("APIResponse", call.out.Body)
                  IN  IF apiResponse.err # NilErr
                      THEN Ret(call.sent, NilPtr, apiResponse.err, TRUE)
                      ELSE Ret(call.sent, NilPtr, errorsNew(apiResponse.v.Message), TRUE)
             ELSE LET collectionResponse == Decode("Collection", call.out.Body)
                  IN  IF collectionResponse.err # NilErr
                      THEN Ret(call.sent, NilPtr, collectionResponse.err, TRUE)
                      ELSE Ret(call.sent, Ptr(collectionResponse.v), NilErr, TRUE)

\* CreateCollection sending the schema with PUT
CreateCollection_Put(collectionSchema, out) ==
    IF collectionSchema.Name = ""
    THEN Ret(<<>>, NilPtr, ErrCollectionNameRequired, FALSE)
    ELSE IF len(collectionSchema.Fields) = 0
    THEN Ret(<<>>, NilPtr, ErrCollectionFieldsRequired, FALSE)
    ELSE LET call == apiCall("PUT", URL(<<collectionsEndpoint>>),
                             MarshalCollectionSchema(collectionSchema), out)
         IN  IF call.out.t = "err" THEN Ret(call.sent, NilPtr, call.out.err, FALSE)
             ELSE IF call.out.StatusCode = StatusConflict
             THEN Ret(call.sent, NilPtr, ErrCollectionDuplicate, TRUE)
             ELSE IF call.out.StatusCode = StatusUnauthorized
             THEN Ret(call.sent, NilPtr, ErrUnauthorized, TRUE)
             ELSE IF call.out.StatusCode = StatusBadRequest
             THEN LET apiResponse == Decode("APIResponse", call.out.Body)
                  IN  IF apiResponse.err # NilErr
                      THEN Ret(call.sent, NilPtr, apiResponse.err, TRUE)
                      ELSE Ret(call.sent, NilPtr, errorsNew(apiResponse.v.Message), TRUE)
             ELSE LET collectionResponse == Decode("Collection", call.out.Body)
                  IN  IF collectionResponse.err # NilErr
                      THEN Ret(call.sent, NilPtr, collectionResponse.err, TRUE)
                      ELSE Ret(call.sent, Ptr(collectionResponse.v), NilErr, TRUE)

CreateCollection(collectionSchema, out) ==
    IF collectionSchema.Name = ""
    THEN Ret(<<>>, NilPtr, ErrCollectionNameRequired, FALSE)
    ELSE IF len(collectionSchema.Fields) = 0
    THEN Ret(<<>>, NilPtr, ErrCollectionFieldsRequired, FALSE)
    ELSE LET call == apiCall("POST", URL(<<collectionsEndpoint>>),
                             MarshalCollectionSchema(collectionSchema), out)
         IN  IF call.out.t = "err" THEN Ret(call.sent, NilPtr, call.out.err, FALSE)
             ELSE IF call.out.StatusCode = StatusConflict
             THEN Ret(call.sent, NilPtr, ErrCollectionDuplicate, TRUE)
             ELSE IF call.out.StatusCode = StatusUnauthorized
             THEN Ret(call.sent, NilPtr, ErrUnauthorized, TRUE)
             ELSE IF call.out.StatusCode = StatusBadRequest
             THEN LET apiResponse == Decode("APIResponse", call.out.Body)
                  IN  IF apiResponse.err # NilErr
                      THEN Ret(call.sent, NilPtr, apiResponse.err, TRUE)
                      ELSE Ret(call.sent, NilPtr, errorsNew(apiResponse.v.Message), TRUE)
             ELSE LET collectionResponse == Decode("Collection", call.out.Body)
                  IN  IF collectionResponse.err # NilErr
                      THEN Ret(call.sent, NilPtr, collectionResponse.err, TRUE)
                      ELSE Ret(call.sent, Ptr(collectionResponse.v), NilErr, TRUE)

RetrieveCollections(out) ==
    LET call == apiCall("GET", URL(<<collectionsEndpoint>>), NoBody, out)
    IN  IF call.out.t = "err" THEN Ret(call.sent, NilSlice, call.out.err, FALSE)
        ELSE IF call.out.StatusCode = StatusUnauthorized
        THEN Ret(call.sent, NilSlice, ErrUnauthorized, TRUE)
        ELSE LET collections == Decode("[]*Collection", call.out.Body)
             IN  IF collections.err # NilErr
                 THEN Ret(call.sent, NilSlice, collections.err, TRUE)
                 ELSE Ret(call.sent, collections.v, NilErr, TRUE)

RetrieveCollection(collectionName, out) ==
    LET call == apiCall("GET", URL(<<collectionsEndpoint, collectionName>>), NoBody, out)
    IN  IF call.out.t = "err" THEN Ret(call.sent, NilPtr, call.out.err, FALSE)
        ELSE IF call.out.StatusCode = StatusNotFound
        THEN Ret(call.sent, NilPtr, ErrCollectionNotFound, TRUE)
        ELSE IF call.out.StatusCode = StatusUnauthorized
        THEN Ret(call.sent, NilPtr, ErrUnauthorized, TRUE)
        ELSE LET collection == Decode("Collection", call.out.Body)
             IN  IF collection.err # NilErr
                 THEN Ret(call.sent, NilPtr, collection.err, TRUE)
                 ELSE Ret(call.sent, Ptr(collection.v), NilErr, TRUE)

DeleteCollection(collectionName, out) ==
    LET call == apiCall("DELETE", URL(<<collectionsEndpoint, collectionName>>), NoBody, out)
    IN  IF call.out.t = "err" THEN Ret(call.sent, NilPtr, call.out.err, FALSE)
        ELSE IF call.out.StatusCode = StatusNotFound
        THEN Ret(call.sent, NilPtr, ErrCollectionNotFound, TRUE)
        ELSE IF call.out.StatusCode = StatusUnauthorized
        THEN Ret(call.sent, NilPtr, ErrUnauthorized, TRUE)
        ELSE LET collection == Decode("Collection", call.out.Body)
             IN  IF collection.err # NilErr
                 THEN Ret(call.sent, NilPtr, collection.err, TRUE)
                 ELSE Ret(call.sent, Ptr(collection.v), NilErr, TRUE)

\* OverrideCollection reporting every status from 400 on as an error
OverrideCollection_ErrorOn4xx(collectionName, overrideCfg, out) ==
    LET call == apiCall("PUT",
                        URL(<<collectionsEndpoint, collectionName, "overrides", overrideCfg.ID>>),
                        MarshalOverride(overrideCfg), out)
    IN  IF call.out.t = "err" THEN Ret(call.sent, NoValue, call.out.err, FALSE)
        ELSE IF call.out.StatusCode = StatusNotFound
        THEN Ret(call.sent, NoValue, ErrCollectionNotFound, FALSE)
        ELSE IF call.out.StatusCode = StatusUnauthorized
        THEN Ret(call.sent, NoValue, ErrUnauthorized, FALSE)
        ELSE IF call.out.StatusCode >= StatusBadRequest
        THEN Ret(call.sent, NoValue, errorsNew("bad request"), FALSE)
        ELSE Ret(call.sent, NoValue, NilErr, FALSE)

\* json.Marshal of an Override cannot fail, so the early return on its error
\* is never taken
OverrideCollection(collectionName, overrideCfg, out) ==
    LET call == apiCall("PUT",
                        URL(<<collectionsEndpoint, collectionName, "overrides", overrideCfg.ID>>),
                        MarshalOverride(overrideCfg), out)
    IN  IF call.out.t = "err" THEN Ret(call.sent, NoValue, call.out.err, FALSE)
        ELSE IF call.out.StatusCode = StatusNotFound
        THEN Ret(call.sent, NoValue, ErrCollectionNotFound, FALSE)
        ELSE IF call.out.StatusCode = StatusUnauthorized
        THEN Ret(call.sent, NoValue, ErrUnauthorized, FALSE)
        ELSE Ret(call.sent, NoValue, NilErr, FALSE)

\* RetrieveOverrides reading the key "override"
RetrieveOverrides_WrongKey(collectionName, out) ==
    LET call == apiCall("GET", URL(<<collectionsEndpoint, collectionName, "overrides">>), NoBody, out)
    IN  IF call.out.t = "err" THEN Ret(call.sent, NilSlice, call.out.err, FALSE)
        ELSE IF call.out.StatusCode = StatusNotFound
        THEN Ret(call.sent, NilSlice, ErrCollectionNotFound, TRUE)
        ELSE IF call.out.StatusCode = StatusUnauthorized
        THEN Ret(call.sent, NilSlice, ErrUnauthorized, TRUE)
        ELSE LET resBody == Decode("map[string][]*Override", call.out.Body)
             IN  IF resBody.err # NilErr
                 THEN Ret(call.sent, NilSlice, resBody.err, TRUE)
                 ELSE IF "override" \in DOMAIN resBody.v
                 THEN Ret(call.sent, resBody.v["override"], NilErr, TRUE)
                 ELSE Ret(call.sent, NilSlice,
                          errorsNew("response did not return a list of overrides"), TRUE)

RetrieveOverrides(collectionName, out) ==
    LET call == apiCall("GET", URL(<<collectionsEndpoint, collectionName, "overrides">>), NoBody, out)
    IN  IF call.out.t = "err" THEN Ret(call.sent, NilSlice, call.out.err, FALSE)
        ELSE IF call.out.StatusCode = StatusNotFound
        THEN Ret(call.sent, NilSlice, ErrCollectionNotFound, TRUE)
        ELSE IF call.out.StatusCode = StatusUnauthorized
        THEN Ret(call.sent, NilSlice, ErrUnauthorized, TRUE)
        ELSE LET resBody == Decode("map[string][]*Override", call.out.Body)
             IN  IF resBody.err # NilErr
                 THEN Ret(call.sent, NilSlice, resBody.err, TRUE)
                 ELSE IF "overrides" \in DOMAIN resBody.v
                 THEN Ret(call.sent, resBody.v["overrides"], NilErr, TRUE)
                 ELSE Ret(call.sent, NilSlice,
                          errorsNew("response did not return a list of overrides"), TRUE)

\* DeleteOverride without the branch for http.StatusNotFound
DeleteOverride_No404(collectionName, id, out) ==
    LET call == apiCall("DELETE",
                        URL(<<collectionsEndpoint, collectionName, "overrides", id>>), NoBody, out)
    IN  IF call.out.t = "err" THEN Ret(call.sent, NoValue, call.out.err, FALSE)
        ELSE IF call.out.StatusCode = StatusUnauthorized
        THEN Ret(call.sent, NoValue, ErrUnauthorized, FALSE)
        ELSE Ret(call.sent, NoValue, NilErr, FALSE)

DeleteOverride(collectionName, id, out) ==
    LET call == apiCall("DELETE",
                        URL(<<collectionsEndpoint, collectionName, "overrides", id>>), NoBody, out)
    IN  IF call.out.t = "err" THEN Ret(call.sent, NoValue, call.out.err, FALSE)
        ELSE IF call.out.StatusCode = StatusNotFound
        THEN Ret(call.sent, NoValue, ErrCollectionNotFound, FALSE)
        ELSE IF call.out.StatusCode = StatusUnauthorized
        THEN Ret(call.sent, NoValue, ErrUnauthorized, FALSE)
        ELSE Ret(call.sent, NoValue, NilErr, FALSE)

(***************************************************************************)
(* The second definitions of RetrieveCollection and DeleteCollection       *)
(* (package main): they build the request themselves and map only 404.     *)
(***************************************************************************)
MainRetrieveCollection(collectionName, out) ==
    LET req == NewRequest("GET", URL(<<collectionsEndpoint, collectionName>>), NoBody)
    IN  IF out.t = "err" THEN Ret(<<req>>, NilPtr, out.err, FALSE)
        ELSE IF out.StatusCode = StatusNotFound
        THEN Ret(<<req>>, NilPtr, ErrCollectionNotFound, TRUE)
        ELSE LET collection == Decode("Collection", out.Body)
             IN  IF collection.err # NilErr
                 THEN Ret(<<req>>, NilPtr, collection.err, TRUE)
                 ELSE Ret(<<req>>, Ptr(collection.v), NilErr, TRUE)

MainDeleteCollection(collectionName, out) ==
    LET req == NewRequest("DELETE", URL(<<collectionsEndpoint, collectionName>>), NoBody)
    IN  IF out.t = "err" THEN Ret(<<req>>, NilPtr, out.err, FALSE)
        ELSE IF out.StatusCode = StatusNotFound
        THEN Ret(<<req>>, NilPtr, ErrCollectionNotFound, TRUE)
        ELSE LET collection == Decode("Collection", out.Body)
             IN  IF collection.err # NilErr
                 THEN Ret(<<req>>, NilPtr, collection.err, TRUE)
                 ELSE Ret(<<req>>, Ptr(collection.v), NilErr, TRUE)

(***************************************************************************)
(* API-key operations (apikey.go).                                         *)
(***************************************************************************)
\* json.Marshal of the map {"description", "actions", "collections"}
MarshalCreateAPIKeyData(description, actions, collections) ==
    JObj([actions |-> MarshalSlice("string", actions),
          collections |-> MarshalSlice("string", collections),
          description |-> JStr(description)])

CreateAPIKey(description, actions, collections, out) ==
    LET call == apiCall("POST", URL(<<"keys">>),
                        MarshalCreateAPIKeyData(description, actions, collections), out)
    IN  IF call.out.t = "err" THEN Ret(call.sent, NilPtr, call.out.err, FALSE)
        ELSE IF call.out.StatusCode = StatusBadRequest
        THEN LET apiError == Decode("APIError", call.out.Body)
             IN  IF apiError.err # NilErr
                 THEN Ret(call.sent, NilPtr, APIError("bad request"), TRUE)
                 ELSE Ret(call.sent, NilPtr, APIError(apiError.v.Message), TRUE)
        ELSE IF call.out.StatusCode = StatusUnauthorized
        THEN Ret(call.sent, NilPtr, ErrUnauthorized, TRUE)
        ELSE LET apiKey == Decode("APIKey", call.out.Body)
             IN  IF apiKey.err # NilErr
                 THEN Ret(call.sent, NilPtr, apiKey.err, TRUE)
                 ELSE Ret(call.sent, Ptr(apiKey.v), NilErr, TRUE)

\* Client.APIKey(id)
APIKey(id, out) ==
    LET call == apiCall("GET", URL(<<"keys", FormatInt(id)>>), NoBody, out)
    IN  IF call.out.t = "err" THEN Ret(call.sent, NilPtr, call.out.err, FALSE)
        ELSE IF call.out.StatusCode = StatusUnauthorized
        THEN Ret(call.sent, NilPtr, ErrUnauthorized, TRUE)
        ELSE LET apiKey == Decode("APIKey", call.out.Body)
             IN  IF apiKey.err # NilErr
                 THEN Ret(call.sent, NilPtr, apiKey.err, TRUE)
                 ELSE Ret(call.sent, Ptr(apiKey.v), NilErr, TRUE)

APIKeys(out) ==
    LET call == apiCall("GET", URL(<<"keys">>), NoBody, out)
    IN  IF call.out.t = "err" THEN Ret(call.sent, NilSlice, call.out.err, FALSE)
        ELSE IF call.out.StatusCode = StatusUnauthorized
        THEN Ret(call.sent, NilSlice, ErrUnauthorized, TRUE)
        ELSE LET apiKeys == Decode("[]*APIKey", call.out.Body)
             IN  IF apiKeys.err # NilErr
                 THEN Ret(call.sent, NilSlice, apiKeys.err, TRUE)
                 ELSE Ret(call.sent, apiKeys.v, NilErr, TRUE)

\* DeleteAPIKey dropping the error of apiCall
DeleteAPIKey_SwallowsError(id, out) ==
    LET call == apiCall("DELETE", URL(<<"keys", FormatInt(id)>>), NoBody, out)
    IN  IF call.out.t = "err" THEN Ret(call.sent, NoValue, NilErr, FALSE)
        ELSE IF call.out.StatusCode = StatusUnauthorized
        THEN Ret(call.sent, NoValue, ErrUnauthorized, FALSE)
        ELSE Ret(call.sent, NoValue, NilErr, FALSE)

DeleteAPIKey(id, out) ==
    LET call == apiCall("DELETE", URL(<<"keys", FormatInt(id)>>), NoBody, out)
    IN  IF call.out.t = "err" THEN Ret(call.sent, NoValue, call.out.err, FALSE)
        ELSE IF call.out.StatusCode = StatusUnauthorized
        THEN Ret(call.sent, NoValue, ErrUnauthorized, FALSE)
        ELSE Ret(call.sent, NoValue, NilErr, FALSE)

(***************************************************************************)
(* Strings and byte slices of the scoped-key generator: sequences of byte  *)
(* values.  Printable lists the ASCII characters 32..126 in order (the     *)
(* grave accent by name).                                                  *)
(***************************************************************************)
Printable ==
    << " ", "!", "\"", "#", "$", "%", "&", "'", "(", ")", "*", "+",
       ",", "-", ".", "/", "0", "1", "2", "3", "4", "5", "6", "7",
       "8", "9", ":", ";", "<", "=", ">", "?", "@", "A", "B", "C",
       "D", "E", "F", "G", "H", "I", "J", "K", "L", "M", "N", "O",
       "P", "Q", "R", "S", "T", "U", "V", "W", "X", "Y", "Z", "[",
       "\\", "]", "^", "_", "grave", "a", "b", "c", "d", "e", "f", "g",
       "h", "i", "j", "k", "l", "m", "n", "o", "p", "q", "r", "s",
       "t", "u", "v", "w", "x", "y", "z", "{", "|", "}", "~" >>

\* the byte of a character
Ord(c) == CHOOSE n \in 32..126 : Printable[n - 31] = c
\* the bytes of a string given character by character
Bytes(s) == [i \in 1..Len(s) |-> Ord(s[i])]

\* the characters the encoders and fmt write, as bytes
ascii ==
    [quote |-> Ord("\""),
     backslash |-> Ord("\\"),
     lessThan |-> Ord("<"),
     greaterThan |-> Ord(">"),
     ampersand |-> Ord("&"),
     colon |-> Ord(":"),
     comma |-> Ord(","),
     leftBrace |-> Ord("{"),
     rightBrace |-> Ord("}"),
     percent |-> Ord("%"),
     padChar |-> Ord("="),
     plusChar |-> Ord("+"),
     slashChar |-> Ord("/"),
     upperA |-> Ord("A"),
     lowerA |-> Ord("a"),
     digitZero |-> Ord("0")]

\* the escapes and the literal null of encoding/json
jsonText ==
    [quote |-> Bytes(<<"\\", "\"">>),
     backslash |-> Bytes(<<"\\", "\\">>),
     lessThan |-> Bytes(<<"\\", "u", "0", "0", "3", "c">>),
     greaterThan |-> Bytes(<<"\\", "u", "0", "0", "3", "e">>),
     ampersand |-> Bytes(<<"\\", "u", "0", "0", "2", "6">>),
     null |-> Bytes(<<"n", "u", "l", "l">>)]

\* the texts fmt writes for a verb without operand
fmtText ==
    [noVerb |-> Bytes(<<"%", "!", "(", "N", "O", "V", "E", "R", "B", ")">>),
     percentBang |-> Bytes(<<"%", "!">>),
     missing |-> Bytes(<<"(", "M", "I", "S", "S", "I", "N", "G", ")">>)]

\* bytewise order of strings, as sort.Strings orders them
RECURSIVE Less(_, _)
Less(a, b) ==
    IF Len(b) = 0 THEN FALSE
    ELSE IF Len(a) = 0 THEN TRUE
    ELSE IF a[1] # b[1] THEN a[1] < b[1]
    ELSE Less(Tail(a), Tail(b))

\* the keys of a map in sorted order, whatever order they were met in
RECURSIVE SortKeys(_)
SortKeys(keys) ==
    IF Len(keys) = 0 THEN <<>>
    ELSE LET least == CHOOSE i \in 1..Len(keys) :
                          \A k \in 1..Len(keys) : k = i \/ Less(keys[i], keys[k])
         IN  <<keys[least]>>
                 \o SortKeys([k \in 1..(Len(keys) - 1) |->
                                  IF k < least THEN keys[k] ELSE keys[k + 1]])

\* encoding/json's form of one byte of a string: quote and backslash are
\* escaped, and <, > and & are written as \u003c, \u003e and \u0026
EscapeByte(b) ==
    IF b = ascii.quote THEN jsonText.quote
    ELSE IF b = ascii.backslash THEN jsonText.backslash
    ELSE IF b = ascii.lessThan THEN jsonText.lessThan
    ELSE IF b = ascii.greaterThan THEN jsonText.greaterThan
    ELSE IF b = ascii.ampersand THEN jsonText.ampersand
    ELSE <<b>>

RECURSIVE EscapeString(_)
EscapeString(s) ==
    IF Len(s) = 0 THEN <<>> ELSE EscapeByte(s[1]) \o EscapeString(Tail(s))

MarshalString(s) == <<ascii.quote>> \o EscapeString(s) \o <<ascii.quote>>

\* a map[string]string: nil, or the (possibly empty) mapping m
NilMap == [isNil |-> TRUE, m |-> <<>>]
Map(m) == [isNil |-> FALSE, m |-> m]

RECURSIVE MarshalMembers(_, _)
MarshalMembers(m, keys) ==
    IF Len(keys) = 0 THEN <<>>
    ELSE MarshalString(keys[1]) \o <<ascii.colon>> \o MarshalString(m[keys[1]])
             \o (IF Len(keys) = 1 THEN <<>> ELSE <<ascii.comma>>)
             \o MarshalMembers(m, Tail(keys))

\* a marshaller that writes the members in the order the map yields them
MarshalOptions_Unsorted(options, order) ==
    IF options.isNil THEN jsonText.null
    ELSE <<ascii.leftBrace>> \o MarshalMembers(options.m, order) \o <<ascii.rightBrace>>

\* j, _ := json.Marshal(options): order is the order in which the map's keys
\* are met when it is ranged over; the encoder sorts them
MarshalOptions(options, order) ==
    IF options.isNil THEN jsonText.null
    ELSE <<ascii.leftBrace>> \o MarshalMembers(options.m, SortKeys(order)) \o <<ascii.rightBrace>>

\* the characters of base64.StdEncoding, by value
B64Char(i) ==
    IF i < 26 THEN ascii.upperA + i
    ELSE IF i < 52 THEN ascii.lowerA + (i - 26)
    ELSE IF i < 62 THEN ascii.digitZero + (i - 52)
    ELSE IF i = 62 THEN ascii.plusChar ELSE ascii.slashChar

\* base64.StdEncoding.EncodeToString
RECURSIVE EncodeToString(_)
EncodeToString(b) ==
    IF Len(b) = 0 THEN <<>>
    ELSE IF Len(b) = 1
    THEN <<B64Char(b[1] \div 4), B64Char((b[1] % 4) * 16), ascii.padChar, ascii.padChar>>
    ELSE IF Len(b) = 2
    THEN <<B64Char(b[1] \div 4), B64Char((b[1] % 4) * 16 + b[2] \div 16),
           B64Char((b[2] % 16) * 4), ascii.padChar>>
    ELSE <<B64Char(b[1] \div 4), B64Char((b[1] % 4) * 16 + b[2] \div 16),
           B64Char((b[2] % 16) * 4 + b[3] \div 64), B64Char(b[3] % 64)>>
             \o EncodeToString(SubSeq(b, 4, Len(b)))

RECURSIVE SumBytes(_)
SumBytes(b) == IF Len(b) = 0 THEN 0 ELSE b[1] + SumBytes(Tail(b))

\* sha256.Size: the bytes of a digest
DigestSize == 32

\* hmac.New(sha256.New, key), h.Write(message), h.Sum(nil).  The digest is
\* not computed: a keyed checksum of DigestSize bytes stands for it, a
\* function of the key and the message as the digest is.
HMACSHA256(key, message) ==
    [i \in 1..DigestSize |->
         (31 * SumBytes(key) + 17 * SumBytes(message) + 7 * Len(message) + 13 * i) % 256]

\* fmt.Sprintf(format) without operands: %% is a percent sign, a percent sign
\* followed by any other verb character c is "%!c(MISSING)", and one that
\* ends the format is "%!(NOVERB)".  Flags, widths and precisions between the
\* percent sign and the verb are not modelled: no format of the model has a
\* percent sign followed by one of "+-# 0123456789.*[".
RECURSIVE Sprintf(_)
Sprintf(format) ==
    IF Len(format) = 0 THEN <<>>
    ELSE IF format[1] # ascii.percent THEN <<format[1]>> \o Sprintf(Tail(format))
    ELSE IF Len(format) = 1
    THEN fmtText.noVerb
    ELSE IF format[2] = ascii.percent
    THEN <<ascii.percent>> \o Sprintf(SubSeq(format, 3, Len(format)))
    ELSE fmtText.percentBang \o <<format[2]>>
             \o fmtText.missing
             \o Sprintf(SubSeq(format, 3, Len(format)))

\* cap([]byte(searchKey)) for a key of n bytes, which the language leaves to
\* the implementation: the length itself, the allocator's size class, or the
\* 32-byte buffer the gc runtime uses for a slice that does not escape
Runtimes == {"exact", "sizeclass", "stackbuf"}

CapOfBytes(rt, n) ==
    IF rt = "exact" THEN n
    ELSE IF rt = "sizeclass" THEN (IF n = 0 THEN 0 ELSE 8 * ((n + 7) \div 8))
    ELSE (IF n <= 32 THEN 32 ELSE 8 * ((n + 7) \div 8))

\* what a call of GenerateScopedSearchKey did: it panicked, or returned token
Panicked == [t |-> "panic"]
Token(s) == [t |-> "string", s |-> s]

\* []byte(searchKey)[:4]: in range up to the capacity; the bytes between the
\* length and the capacity are zero
KeyPrefix(searchKey) ==
    [i \in 1..4 |-> IF i <= Len(searchKey) THEN searchKey[i] ELSE 0]

\* c.GenerateScopedSearchKey(searchKey, options).  h.Write of a hash never
\* fails, so the return of "" is never taken.
GenerateScopedSearchKey(c, rt, searchKey, options, order) ==
    LET j == MarshalOptions(options, order)
        h == HMACSHA256(searchKey, j)
    IN  IF 4 > CapOfBytes(rt, Len(searchKey)) THEN Panicked
        ELSE LET keyPrefix == KeyPrefix(searchKey)
                 digest == EncodeToString(h)
                 rawScopedKey == Sprintf(digest \o keyPrefix \o j)
             IN  Token(EncodeToString(rawScopedKey))

(***************************************************************************)
(* The inputs of the model: arguments of the calls and response bodies.    *)
(***************************************************************************)
CollectionFields == {[Name |-> "name", Type |-> "string", Facet |-> b] : b \in BOOLEAN}

Schemas ==
    [Name : {"", "companies"},
     Fields : SlicesUpTo(CollectionFields, MaxFields),
     DefaultSortingField : {"", "name"}]

Collections ==
    [CollectionSchema : Schemas, NumDocuments : {0, 3}, CreatedAt : {0, 1600000000}]

CollectionNames == {"companies", "books"}

testOverride ==
    [ID |-> "customize-apple", Excludes |-> NilSlice, Includes |-> NilSlice,
     Rule |-> [Match |-> "exact", Query |-> "apple"]]

promoteOverride ==
    [ID |-> "promote",
     Excludes |-> Slice(<<Ptr([ID |-> "287", Position |-> NilPtr])>>),
     Includes |-> Slice(<<Ptr([ID |-> "422", Position |-> Ptr(1)])>>),
     Rule |-> [Match |-> "contains", Query |-> "phone"]]

Overrides == {testOverride, promoteOverride}

ActionSlices ==
    {NilSlice, Slice(<<>>), Slice(<<"*">>), Slice(<<"documents:*", "collections:create">>)}

APIKeyValues ==
    [Actions : ActionSlices,
     Collections : {NilSlice, Slice(<<"companies">>)},
     Description : {"", "API key"},
     ID : {0, 1},
     Value : {"", "apikey"}]

Messages == {"", "bad schema"}

\* bodies of the service's error payload, well typed and not
ErrorPayloads ==
    {JObj([message |-> JStr(m)]) : m \in Messages} \cup {JObj([message |-> JNum(5)])}

\* bodies that are no entity: nothing, no JSON, and JSON of every other kind
CommonBodies ==
    {JEmpty, JBad, JNull, JNum(7), JStr("x"), JArr(<<>>), JObj(NoMembers)}
        \cup ErrorPayloads

CollectionBodies ==
    CommonBodies
        \cup {MarshalCollection(c) : c \in Collections}
        \cup {JObj([name |-> JNum(5)]),
              JObj([name |-> JStr("companies"), fields |-> JStr("x")]),
              JObj([name |-> JStr("companies"), unknown |-> JNum(1)])}

sampleCollections ==
    {[CollectionSchema |->
          [Name |-> "companies", Fields |-> Slice(<<[Name |-> "name", Type |-> "string", Facet |-> FALSE]>>),
           DefaultSortingField |-> ""],
      NumDocuments |-> 0, CreatedAt |-> 0],
     [CollectionSchema |->
          [Name |-> "books", Fields |-> NilSlice, DefaultSortingField |-> "name"],
      NumDocuments |-> 3, CreatedAt |-> 1600000000]}

CollectionsBodies ==
    CommonBodies
        \cup {JArr(a) : a \in SeqsUpTo({MarshalCollection(c) : c \in sampleCollections}
                                           \cup {JNull, JNum(7)}, MaxItems)}

APIKeyBodies ==
    CommonBodies
        \cup {MarshalAPIKey(k) : k \in APIKeyValues}
        \cup {JObj([id |-> JStr("1")]), JObj([id |-> JNum(1), unknown |-> JNum(1)])}

sampleAPIKeys ==
    {[Actions |-> Slice(<<"documents:*", "collections:create">>),
      Collections |-> Slice(<<"companies">>), Description |-> "API key", ID |-> 1,
      Value |-> "apikey"],
     [Actions |-> NilSlice, Collections |-> Slice(<<>>), Description |-> "", ID |-> 0,
      Value |-> ""]}

APIKeysBodies ==
    CommonBodies
        \cup {JArr(a) : a \in SeqsUpTo({MarshalAPIKey(k) : k \in sampleAPIKeys}
                                           \cup {JNull, JNum(7)}, MaxItems)}

\* what the service may put under a key of the overrides object
OverrideLists ==
    {JNull, JNum(7)}
        \cup {JArr(a) : a \in SeqsUpTo({MarshalOverride(o) : o \in Overrides}
                                           \cup {JNull, JNum(7)}, MaxItems)}

OverridesBodies ==
    CommonBodies
        \cup {JObj([overrides |-> l]) : l \in OverrideLists}
        \cup {JObj([overrides |-> l, total |-> x]) : l \in OverrideLists, x \in {JNum(2), JArr(<<>>)}}
        \cup {JObj([total |-> x]) : x \in {JNum(2), JArr(<<>>)}}

(***************************************************************************)
(* The state machine: a caller makes one call at a time on the client and  *)
(* takes its result.                                                       *)
(***************************************************************************)
testMasterNode == [Protocol |-> "http", Host |-> "localhost", Port |-> "8108", APIKey |-> "secret"]

NoArgs == [none |-> TRUE]

\* no scoped key has been issued yet
NoKey == [none |-> TRUE]

\* the goroutines that call the client concurrently
Callers == {"g1", "g2"}

\* a goroutine that is not in a call
idleProc ==
    [pc |-> "idle", op |-> "none", args |-> NoArgs, sent |-> <<>>, answer |-> NoResp,
     result |-> NoValue, err |-> NilErr]

\* a scoped key that was returned earlier, and whether the client was called
\* again after it
Issued(searchKey, options, token) ==
    [searchKey |-> searchKey, options |-> options, token |-> token, between |-> FALSE]

Init ==
    /\ pc = "idle"
    /\ op = "none"
    /\ args = NoArgs
    /\ masterNode = testMasterNode
    /\ calls = <<>>
    /\ resp = NoResp
    /\ result = NoValue
    /\ err = NilErr
    /\ bodyClosed = FALSE
    /\ goRuntime = "stackbuf"
    /\ issued = NoKey
    /\ procs = [p \in Callers |-> idleProc]
    /\ wire = <<>>

\* one call of operation name with arguments a: r is what the operation did
\* when the transport answered out to the request it received, if any
Call(name, a, r, out) ==
    /\ pc' = "returned"
    /\ op' = name
    /\ args' = a
    /\ calls' = r.calls
    /\ resp' = IF r.calls = <<>> THEN NoResp ELSE out
    /\ result' = r.result
    /\ err' = r.err
    /\ bodyClosed' = r.closed
    /\ issued' = IF issued = NoKey THEN NoKey ELSE [issued EXCEPT !.between = TRUE]
    /\ UNCHANGED <<masterNode, goRuntime, procs, wire>>

DoCreateCollection ==
    /\ pc = "idle"
    /\ \E s \in Schemas, out \in Outcomes(CollectionBodies) :
           Call("CreateCollection", [collectionSchema |-> s], CreateCollection(s, out), out)

DoRetrieveCollections ==
    /\ pc = "idle"
    /\ \E out \in Outcomes(CollectionsBodies) :
           Call("RetrieveCollections", NoArgs, RetrieveCollections(out), out)

DoRetrieveCollection ==
    /\ pc = "idle"
    /\ \E n \in CollectionNames, out \in Outcomes(CollectionBodies) :
           Call("RetrieveCollection", [collectionName |-> n], RetrieveCollection(n, out), out)

DoDeleteCollection ==
    /\ pc = "idle"
    /\ \E n \in CollectionNames, out \in Outcomes(CollectionBodies) :
           Call("DeleteCollection", [collectionName |-> n], DeleteCollection(n, out), out)

DoOverrideCollection ==
    /\ pc = "idle"
    /\ \E n \in CollectionNames, o \in Overrides, out \in Outcomes(CommonBodies) :
           Call("OverrideCollection", [collectionName |-> n, overrideCfg |-> o],
                OverrideCollection(n, o, out), out)

DoRetrieveOverrides ==
    /\ pc = "idle"
    /\ \E n \in CollectionNames, out \in Outcomes(OverridesBodies) :
           Call("RetrieveOverrides", [collectionName |-> n], RetrieveOverrides(n, out), out)

DoDeleteOverride ==
    /\ pc = "idle"
    /\ \E n \in CollectionNames, o \in Overrides, out \in Outcomes(CommonBodies) :
           Call("DeleteOverride", [collectionName |-> n, id |-> o.ID],
                DeleteOverride(n, o.ID, out), out)

DoMainRetrieveCollection ==
    /\ pc = "idle"
    /\ \E n \in CollectionNames, out \in Outcomes(CollectionBodies) :
           Call("MainRetrieveCollection", [collectionName |-> n],
                MainRetrieveCollection(n, out), out)

DoMainDeleteCollection ==
    /\ pc = "idle"
    /\ \E n \in CollectionNames, out \in Outcomes(CollectionBodies) :
           Call("MainDeleteCollection", [collectionName |-> n],
                MainDeleteCollection(n, out), out)

DoCreateAPIKey ==
    /\ pc = "idle"
    /\ \E d \in {"", "API key"}, a \in ActionSlices,
          c \in {NilSlice, Slice(<<"companies">>)}, out \in Outcomes(APIKeyBodies) :
           Call("CreateAPIKey", [description |-> d, actions |-> a, collections |-> c],
                CreateAPIKey(d, a, c, out), out)

DoAPIKey ==
    /\ pc = "idle"
    /\ \E id \in {0, 1}, out \in Outcomes(APIKeyBodies) :
           Call("APIKey", [id |-> id], APIKey(id, out), out)

DoAPIKeys ==
    /\ pc = "idle"
    /\ \E out \in Outcomes(APIKeysBodies) :
           Call("APIKeys", NoArgs, APIKeys(out), out)

DoDeleteAPIKey ==
    /\ pc = "idle"
    /\ \E id \in {0, 1}, out \in Outcomes(CommonBodies) :
           Call("DeleteAPIKey", [id |-> id], DeleteAPIKey(id, out), out)

\* the caller takes the result and is ready for its next call
Return ==
    /\ pc = "returned"
    /\ pc' = "idle"
    /\ op' = "none"
    /\ args' = NoArgs
    /\ calls' = <<>>
    /\ resp' = NoResp
    /\ result' = NoValue
    /\ err' = NilErr
    /\ bodyClosed' = FALSE
    /\ UNCHANGED <<masterNode, goRuntime, issued, procs, wire>>

Next ==
    \/ DoCreateCollection
    \/ DoRetrieveCollections
    \/ DoRetrieveCollection
    \/ DoDeleteCollection
    \/ DoOverrideCollection
    \/ DoRetrieveOverrides
    \/ DoDeleteOverride
    \/ DoMainRetrieveCollection
    \/ DoMainDeleteCollection
    \/ DoCreateAPIKey
    \/ DoAPIKey
    \/ DoAPIKeys
    \/ DoDeleteAPIKey
    \/ Return

Spec == Init /\ [][Next]_vars

(***************************************************************************)
(* Scoped keys.  A caller generates scoped keys from parent keys and       *)
(* parameter maps, on clients of any configuration, and may call the       *)
(* server in between.  The Go implementation that built the program is     *)
(* fixed for a whole run.                                                  *)
(***************************************************************************)
sampleKey == Bytes(<<"a", "%", "c", "d", "e", "f", "g", "h">>)

plainKey == Bytes(<<"a", "b", "c", "d", "e", "f">>)

SearchKeys == {SubSeq(sampleKey, 1, n) : n \in 0..MaxKeyLen} \cup {plainKey}

OptionKeys == {Bytes(<<"q">>), Bytes(<<"f">>)}
OptionValues == {Bytes(<<"a", ">">>), Bytes(<<"%">>)}

OptionMaps ==
    {NilMap} \cup {Map(m) : m \in UNION {[K -> OptionValues] : K \in SUBSET OptionKeys}}

\* the orders in which ranging over a map can yield its keys
Orders(options) ==
    {o \in SeqsUpTo(DOMAIN options.m, Cardinality(DOMAIN options.m)) :
         /\ Len(o) = Cardinality(DOMAIN options.m)
         /\ \A i, k \in 1..Len(o) : i # k => o[i] # o[k]}

\* two clients of different configuration
Clients == {testMasterNode, [testMasterNode EXCEPT !.APIKey = "other"]}

InitKey ==
    /\ pc = "idle"
    /\ op = "none"
    /\ args = NoArgs
    /\ masterNode = testMasterNode
    /\ calls = <<>>
    /\ resp = NoResp
    /\ result = NoValue
    /\ err = NilErr
    /\ bodyClosed = FALSE
    /\ goRuntime \in Runtimes
    /\ issued = NoKey
    /\ procs = [p \in Callers |-> idleProc]
    /\ wire = <<>>

\* a panic is not recovered: the program stops
DoGenerateScopedSearchKey ==
    /\ pc = "idle"
    /\ \E c \in Clients, searchKey \in SearchKeys, options \in OptionMaps :
         \E order \in Orders(options) :
           LET r == GenerateScopedSearchKey(c, goRuntime, searchKey, options, order)
           IN  /\ pc' = IF r = Panicked THEN "panicked" ELSE "returned"
               /\ op' = "GenerateScopedSearchKey"
               /\ args' = [c |-> c, searchKey |-> searchKey,
                           options |-> options, order |-> order]
               /\ result' = r
               /\ UNCHANGED <<masterNode, calls, resp, err, bodyClosed, goRuntime, issued,
                              procs, wire>>

\* the caller takes the scoped key and keeps it
KeepScopedKey ==
    /\ pc = "returned"
    /\ op = "GenerateScopedSearchKey"
    /\ pc' = "idle"
    /\ op' = "none"
    /\ args' = NoArgs
    /\ result' = NoValue
    /\ issued' = Issued(args.searchKey, args.options, result)
    /\ UNCHANGED <<masterNode, calls, resp, err, bodyClosed, goRuntime, procs, wire>>

NextKey ==
    \/ DoGenerateScopedSearchKey
    \/ KeepScopedKey
    \/ DoDeleteAPIKey
    \/ Return

SpecKey == InitKey /\ [][NextKey]_vars

(***************************************************************************)
(* Concurrent calls.  Two goroutines call one client.  A call builds its   *)
(* request from the client's configuration and hands it to the transport,  *)
(* waits, receives the transport's answer as the value apiCall returns to  *)
(* it, and maps the answer to its result.  The steps of the two goroutines *)
(* interleave freely; wire holds the answers the transport has handed back *)
(* and that have not been mapped yet.                                      *)
(***************************************************************************)
sampleSchema ==
    [Name |-> "companies",
     Fields |-> Slice(<<[Name |-> "name", Type |-> "string", Facet |-> FALSE]>>),
     DefaultSortingField |-> "name"]

\* one operation of the client on its arguments and the transport's outcome
Handle(name, a, out) ==
    CASE name = "CreateCollection" -> CreateCollection(a.collectionSchema, out)
      [] name = "RetrieveCollections" -> RetrieveCollections(out)
      [] name = "RetrieveCollection" -> RetrieveCollection(a.collectionName, out)
      [] name = "DeleteCollection" -> DeleteCollection(a.collectionName, out)
      [] name = "OverrideCollection"
             -> OverrideCollection(a.collectionName, a.overrideCfg, out)
      [] name = "RetrieveOverrides" -> RetrieveOverrides(a.collectionName, out)
      [] name = "DeleteOverride" -> DeleteOverride(a.collectionName, a.id, out)
      [] name = "MainRetrieveCollection" -> MainRetrieveCollection(a.collectionName, out)
      [] name = "MainDeleteCollection" -> MainDeleteCollection(a.collectionName, out)
      [] name = "CreateAPIKey"
             -> CreateAPIKey(a.description, a.actions, a.collections, out)
      [] name = "APIKey" -> APIKey(a.id, out)
      [] name = "APIKeys" -> APIKeys(out)
      [] name = "DeleteAPIKey" -> DeleteAPIKey(a.id, out)
      [] name = "GenerateScopedSearchKey"
             -> Ret(<<>>,
                    GenerateScopedSearchKey(a.c, goRuntime, a.searchKey, a.options, a.order),
                    NilErr, FALSE)

\* the calls the goroutines make
ConcCalls ==
    {[op |-> "CreateCollection", args |-> [collectionSchema |-> sampleSchema]],
     [op |-> "CreateCollection",
      args |-> [collectionSchema |-> [sampleSchema EXCEPT !.Name = ""]]],
     [op |-> "RetrieveCollections", args |-> NoArgs],
     [op |-> "RetrieveCollection", args |-> [collectionName |-> "companies"]],
     [op |-> "DeleteCollection", args |-> [collectionName |-> "companies"]],
     [op |-> "OverrideCollection",
      args |-> [collectionName |-> "companies", overrideCfg |-> testOverride]],
     [op |-> "RetrieveOverrides", args |-> [collectionName |-> "companies"]],
     [op |-> "DeleteOverride",
      args |-> [collectionName |-> "companies", id |-> testOverride.ID]],
     [op |-> "MainRetrieveCollection", args |-> [collectionName |-> "companies"]],
     [op |-> "MainDeleteCollection", args |-> [collectionName |-> "companies"]],
     [op |-> "CreateAPIKey",
      args |-> [description |-> "API key", actions |-> Slice(<<"*">>),
                collections |-> Slice(<<"companies">>)]],
     [op |-> "APIKey", args |-> [id |-> 1]],
     [op |-> "APIKeys", args |-> NoArgs],
     [op |-> "DeleteAPIKey", args |-> [id |-> 1]],
     [op |-> "GenerateScopedSearchKey",
      args |-> [c |-> testMasterNode, searchKey |-> plainKey,
                options |-> NilMap, order |-> <<>>]]}

\* what the transport answers to a request
ConcOutcomes ==
    {ErrOut(TransportError("timeout")),
     Response(StatusOK, JObj(NoMembers)),
     Response(StatusOK, JBad),
     Response(StatusNotFound, JObj(NoMembers))}

\* the requests a call hands to the transport.  Every operation builds its
\* request before it knows the outcome, so the outcome given here is of no
\* account; an operation that rejects its arguments sends none.
RequestsOf(name, a) == Handle(name, a, ErrOut(TransportError("timeout"))).calls

\* a call reading the answer that was handed back last, whoever it was for
OwnResponse_LastAnswered(p) ==
    IF wire = <<>> THEN NoResp ELSE wire[Len(wire)].out

\* resp, err := c.apiCall(...): the answer a call maps is the one returned to
\* it, a local of the call
OwnResponse(p) ==
    IF \E i \in 1..Len(wire) : wire[i].caller = p
    THEN wire[CHOOSE i \in 1..Len(wire) : wire[i].caller = p].out
    ELSE NoResp

RECURSIVE Without(_, _)
Without(w, p) ==
    IF w = <<>> THEN <<>>
    ELSE IF w[1].caller = p THEN Without(Tail(w), p)
    ELSE <<w[1]>> \o Without(Tail(w), p)

\* a goroutine enters an operation: the arguments are checked and the request
\* is built from the configuration and handed to the transport
Begin(p) ==
    /\ procs[p].pc = "idle"
    /\ \E call \in ConcCalls :
         \E sent \in {RequestsOf(call.op, call.args)} :
           procs' = [procs EXCEPT ![p] =
               [idleProc EXCEPT !.pc = IF sent = <<>> THEN "mapping" ELSE "waiting",
                                !.op = call.op, !.args = call.args, !.sent = sent]]
    /\ UNCHANGED <<pc, op, args, masterNode, calls, resp, result, err, bodyClosed,
                   goRuntime, issued, wire>>

\* the transport answers the request of p: the answer is handed back to the
\* goroutine whose call sent the request
Deliver(p) ==
    /\ procs[p].pc = "waiting"
    /\ \E out \in ConcOutcomes :
           /\ wire' = Append(wire, [caller |-> p, out |-> out])
           /\ procs' = [procs EXCEPT ![p].pc = "mapping", ![p].answer = out]
    /\ UNCHANGED <<pc, op, args, masterNode, calls, resp, result, err, bodyClosed,
                   goRuntime, issued>>

\* the operation maps the answer it received to its result and returns
Finish(p) ==
    /\ procs[p].pc = "mapping"
    /\ \E r \in {Handle(procs[p].op, procs[p].args, OwnResponse(p))} :
           procs' = [procs EXCEPT ![p].pc = "returned",
                                  ![p].result = r.result, ![p].err = r.err]
    /\ wire' = Without(wire, p)
    /\ UNCHANGED <<pc, op, args, masterNode, calls, resp, result, err, bodyClosed,
                   goRuntime, issued>>

\* the goroutine takes the result and is ready for its next call
Leave(p) ==
    /\ procs[p].pc = "returned"
    /\ procs' = [procs EXCEPT ![p] = idleProc]
    /\ UNCHANGED <<pc, op, args, masterNode, calls, resp, result, err, bodyClosed,
                   goRuntime, issued, wire>>

NextConc ==
    \E p \in Callers :
        \/ Begin(p)
        \/ Deliver(p)
        \/ Finish(p)
        \/ Leave(p)

SpecConc == Init /\ [][NextConc]_vars

(***************************************************************************)
(* Properties.                                                             *)
(***************************************************************************)
\* the call of operation name has returned
Returned(name) == pc = "returned" /\ op = name
\* the transport answered the call's request with status code
Answered(code) == resp.t = "resp" /\ resp.StatusCode = code
\* the absent result of each kind of operation
NilResults == {NilPtr, NilSlice, NoValue}

\* C1: CreateCollection with an empty name, whatever the fields, returns the
\* name-required error and a nil collection and sends nothing to the transport.
C1_EmptyNameRejected ==
    (Returned("CreateCollection") /\ args.collectionSchema.Name = "")
        => /\ err = ErrCollectionNameRequired
           /\ result = NilPtr
           /\ calls = <<>>
           /\ resp = NoResp

C1_Witness ==
    /\ Returned("CreateCollection")
    /\ args.collectionSchema.Name = ""
    /\ len(args.collectionSchema.Fields) = 0
    /\ err = ErrCollectionNameRequired

\* C2: CreateCollection with a non-empty name and an empty or nil field list
\* returns the fields-required error and a nil collection and sends nothing to
\* the transport.
C2_EmptyFieldsRejected ==
    (/\ Returned("CreateCollection")
     /\ args.collectionSchema.Name # ""
     /\ len(args.collectionSchema.Fields) = 0)
        => /\ err = ErrCollectionFieldsRequired
           /\ result = NilPtr
           /\ calls = <<>>
           /\ resp = NoResp

C2_Witness ==
    /\ Returned("CreateCollection")
    /\ args.collectionSchema.Name # ""
    /\ args.collectionSchema.Fields = Slice(<<>>)
    /\ err = ErrCollectionFieldsRequired

\* C3: a 401 response to any operation, both definitions of RetrieveCollection
\* and DeleteCollection included, yields ErrUnauthorized whatever the body.
C3_UnauthorizedEverywhere ==
    (pc = "returned" /\ Answered(StatusUnauthorized)) => err = ErrUnauthorized

\* C4: a 404 response to RetrieveCollection, DeleteCollection,
\* OverrideCollection, RetrieveOverrides or DeleteOverride yields
\* ErrCollectionNotFound and no value, whatever the body.
NotFoundOps ==
    {"RetrieveCollection", "DeleteCollection", "OverrideCollection", "RetrieveOverrides",
     "DeleteOverride", "MainRetrieveCollection", "MainDeleteCollection"}

C4_NotFound ==
    (pc = "returned" /\ op \in NotFoundOps /\ Answered(StatusNotFound))
        => err = ErrCollectionNotFound /\ result \in NilResults

C4_Witness ==
    /\ Returned("DeleteOverride")
    /\ Answered(StatusNotFound)
    /\ resp.Body = JEmpty
    /\ err = ErrCollectionNotFound

\* C5: a 409 response to CreateCollection, called with a schema that passes
\* validation, yields ErrCollectionDuplicate and a nil collection whatever the
\* body.
C5_Conflict ==
    (Returned("CreateCollection") /\ Answered(StatusConflict))
        => err = ErrCollectionDuplicate /\ result = NilPtr

C5_Witness ==
    /\ Returned("CreateCollection")
    /\ Answered(StatusConflict)
    /\ \E c \in Collections : resp.Body = MarshalCollection(c)
    /\ err = ErrCollectionDuplicate

\* C6: a 400 response to CreateCollection or CreateAPIKey is decoded as an
\* APIError: an undecodable body gives the fallback "bad request" error, a
\* decodable one an error carrying the decoded message, the same in both.
C6_BadRequestUniform ==
    (/\ pc = "returned"
     /\ op \in {"CreateCollection", "CreateAPIKey"}
     /\ Answered(StatusBadRequest))
        => LET apiError == Decode("APIError", resp.Body)
           IN  /\ result = NilPtr
               /\ IF apiError.err # NilErr
                  THEN err.msg = "bad request"
                  ELSE /\ err.kind \in {"APIError", "errorString"}
                       /\ err.msg = apiError.v.Message

\* C7: no operation hands more than one request to the transport, and when the
\* transport returns an error the operation returns that error and no value.
C7_TransportErrorPropagated ==
    pc = "returned"
        => /\ Len(calls) <= 1
           /\ resp.t = "err" => (err = resp.err /\ result \in NilResults)

C7_Witness ==
    /\ Returned("DeleteAPIKey")
    /\ resp.t = "err"
    /\ Len(calls) = 1
    /\ err = TransportError("timeout")

\* C8: CreateCollection with a non-empty name and non-empty fields sends
\* exactly one POST to the collections resource, and on a 200 or 201 response
\* whose body decodes as a Collection it returns that Collection and a nil
\* error; for the serialisation of a Collection that is the Collection itself.
C8_CreateCollection ==
    (/\ Returned("CreateCollection")
     /\ args.collectionSchema.Name # ""
     /\ len(args.collectionSchema.Fields) # 0)
        => /\ Len(calls) = 1
           /\ calls[1].method = "POST"
           /\ calls[1].url = URL(<<"collections">>)
           /\ (resp.t = "resp" /\ resp.StatusCode \in {StatusOK, StatusCreated})
                  => /\ resp.Body \notin {JEmpty, JBad}
                         => LET d == DecCollection(resp.Body)
                            IN  d.ok => (result = Ptr(d.v) /\ err = NilErr)
                     /\ \A c \in Collections :
                            resp.Body = MarshalCollection(c)
                                => (result = Ptr(c) /\ err = NilErr)

C8_Witness ==
    /\ Returned("CreateCollection")
    /\ Answered(StatusCreated)
    /\ Len(calls) = 1
    /\ result.t = "ptr"
    /\ result.v.CollectionSchema = args.collectionSchema
    /\ len(result.v.CollectionSchema.Fields) = MaxFields
    /\ err = NilErr

\* a list of overrides as the service writes it: an array of serialised
\* overrides and nulls
IsOverrideList(j) ==
    /\ j.t = "arr"
    /\ \A i \in 1..Len(j.a) :
           j.a[i] = JNull \/ \E o \in Overrides : j.a[i] = MarshalOverride(o)

\* the overrides a list holds, in its order
OverridesOf(j) ==
    Slice([i \in 1..Len(j.a) |->
               IF j.a[i] = JNull THEN NilPtr
               ELSE Ptr(CHOOSE o \in Overrides : j.a[i] = MarshalOverride(o))])

\* the call is RetrieveOverrides answered 200 or 201 with a JSON object
OverridesObjectReturned ==
    /\ Returned("RetrieveOverrides")
    /\ resp.t = "resp"
    /\ resp.StatusCode \in {StatusOK, StatusCreated}
    /\ resp.Body.t = "obj"

\* C9, as stated: RetrieveOverrides on a success body that is an object with a
\* list under "overrides", whatever else the object holds, returns that list in
\* its order and a nil error; on an object without the key, a nil sequence
\* and an error.
C9_AnyObjectWithOverrides ==
    OverridesObjectReturned
        => IF "overrides" \in DOMAIN resp.Body.o
           THEN IsOverrideList(resp.Body.o.overrides)
                    => (result = OverridesOf(resp.Body.o.overrides) /\ err = NilErr)
           ELSE result = NilSlice /\ err.kind \in {"decode", "errorString"}

\* C9, amended: the same, for an object all of whose members are lists of
\* overrides or null (every member is decoded as a list of overrides, so any
\* other member makes the whole decoding fail).
C9_ObjectOfOverrideLists ==
    OverridesObjectReturned
        => IF "overrides" \in DOMAIN resp.Body.o
           THEN (/\ IsOverrideList(resp.Body.o.overrides)
                 /\ \A k \in DOMAIN resp.Body.o :
                        resp.Body.o[k] = JNull \/ IsOverrideList(resp.Body.o[k]))
                    => (result = OverridesOf(resp.Body.o.overrides) /\ err = NilErr)
           ELSE result = NilSlice /\ err.kind \in {"decode", "errorString"}

C9_Witness ==
    /\ OverridesObjectReturned
    /\ resp.Body = JObj([overrides |-> JArr(<<MarshalOverride(promoteOverride),
                                              MarshalOverride(testOverride)>>),
                         total |-> JArr(<<>>)])
    /\ result = Slice(<<Ptr(promoteOverride), Ptr(testOverride)>>)
    /\ err = NilErr

\* C10: on a 200 or 201 response whose body is the serialisation of an entity,
\* RetrieveCollection, DeleteCollection (both definitions), CreateAPIKey and
\* APIKey return that entity and a nil error, and APIKeys, on the
\* serialisation of a sequence of keys, returns the same keys in the same
\* order.
C10_EntityRoundTrip ==
    (pc = "returned" /\ resp.t = "resp" /\ resp.StatusCode \in {StatusOK, StatusCreated})
        => /\ op \in {"RetrieveCollection", "DeleteCollection",
                      "MainRetrieveCollection", "MainDeleteCollection"}
                  => \A c \in Collections :
                         resp.Body = MarshalCollection(c)
                             => (result = Ptr(c) /\ err = NilErr)
           /\ op \in {"CreateAPIKey", "APIKey"}
                  => \A k \in APIKeyValues :
                         resp.Body = MarshalAPIKey(k)
                             => (result = Ptr(k) /\ err = NilErr)
           /\ op = "APIKeys"
                  => \A ks \in SeqsUpTo(sampleAPIKeys, MaxItems) :
                         resp.Body = JArr([i \in 1..Len(ks) |-> MarshalAPIKey(ks[i])])
                             => (/\ result = Slice([i \in 1..Len(ks) |-> Ptr(ks[i])])
                                 /\ err = NilErr)

C10_Witness ==
    /\ Returned("DeleteCollection")
    /\ Answered(StatusOK)
    /\ result.t = "ptr"
    /\ resp.Body = MarshalCollection(result.v)
    /\ result.v.CreatedAt # 0
    /\ result.v.NumDocuments # 0
    /\ len(result.v.CollectionSchema.Fields) = MaxFields

\* a call of GenerateScopedSearchKey has returned or panicked
KeyCallEnded == pc \in {"returned", "panicked"} /\ op = "GenerateScopedSearchKey"

\* the token the layout describes: base64 of the base64 digest, the first
\* four bytes of the key and the JSON, byte for byte
LayoutToken(searchKey, j) ==
    Token(EncodeToString(EncodeToString(HMACSHA256(searchKey, j))
                             \o SubSeq(searchKey, 1, 4) \o j))

\* C11: for every parent key of at least 4 bytes and every parameter map,
\* GenerateScopedSearchKey returns base64(base64(HMAC-SHA256(key, JSON)) ++
\* first 4 bytes of the key ++ JSON), with no byte of the prefix or the JSON
\* altered.  The code passes the concatenation to fmt.Sprintf as a format, so
\* a percent sign in the prefix or in the JSON is rewritten.
C11_TokenLayout ==
    (KeyCallEnded /\ Len(args.searchKey) >= 4)
        => result = LayoutToken(args.searchKey, MarshalOptions(args.options, args.order))

\* C12: two calls of GenerateScopedSearchKey with the same parent key and the
\* same parameter map return the same token, whatever client they are made
\* on, whatever order the map yields its keys in, and whatever was called in
\* between.
C12_Deterministic ==
    (/\ KeyCallEnded
     /\ issued # NoKey
     /\ issued.searchKey = args.searchKey
     /\ issued.options = args.options)
        => result = issued.token

C12_Witness ==
    /\ KeyCallEnded
    /\ issued # NoKey
    /\ issued.searchKey = args.searchKey
    /\ issued.options = args.options
    /\ issued.between
    /\ args.c # testMasterNode
    /\ args.order # SortKeys(args.order)
    /\ result = issued.token

\* C13: a parent key shorter than 4 bytes makes the call fail at runtime on
\* the prefix slice; no token is returned, in particular none built from a
\* shorter or padded prefix.  The slice expression is in range up to the
\* capacity of the converted key, which can exceed its length.
C13_ShortKeyFails ==
    (KeyCallEnded /\ Len(args.searchKey) < 4) => (pc = "panicked" /\ result = Panicked)

\* the operations that return no value
NoValueOps == {"OverrideCollection", "DeleteOverride", "DeleteAPIKey"}

\* the statuses that each operation maps to an error
MappedStatuses(name) ==
    CASE name = "CreateCollection" -> {StatusConflict, StatusUnauthorized, StatusBadRequest}
      [] name = "CreateAPIKey" -> {StatusBadRequest, StatusUnauthorized}
      [] name \in {"RetrieveCollections", "APIKey", "APIKeys", "DeleteAPIKey"}
             -> {StatusUnauthorized}
      [] name \in {"MainRetrieveCollection", "MainDeleteCollection"} -> {StatusNotFound}
      [] OTHER -> {StatusNotFound, StatusUnauthorized}

\* the Go type that each entity-returning operation decodes a success body into
EntityType(name) ==
    CASE name \in {"RetrieveCollections"} -> "[]*Collection"
      [] name = "RetrieveOverrides" -> "map[string][]*Override"
      [] name \in {"CreateAPIKey", "APIKey"} -> "APIKey"
      [] name = "APIKeys" -> "[]*APIKey"
      [] OTHER -> "Collection"

\* C14: a status that the operation does not map to an error is treated as
\* the success path.  An operation that returns no value returns a nil error;
\* an operation that returns an entity decodes the body, returns the decode
\* error and a nil result if the body is malformed, and otherwise no error
\* (RetrieveOverrides: unless the decoded object lacks the "overrides" key).
C14_UnmappedStatusIsSuccess ==
    (pc = "returned" /\ resp.t = "resp" /\ resp.StatusCode \notin MappedStatuses(op))
        => IF op \in NoValueOps
           THEN err = NilErr /\ result = NoValue
           ELSE LET decoded == Decode(EntityType(op), resp.Body)
                IN  IF decoded.err # NilErr
                    THEN err = decoded.err /\ result \in NilResults
                    ELSE \/ err = NilErr
                         \/ /\ op = "RetrieveOverrides"
                            /\ "overrides" \notin DOMAIN decoded.v

C14_Witness ==
    /\ Returned("OverrideCollection")
    /\ Answered(500)
    /\ resp.Body = JBad
    /\ err = NilErr

\* C16: every operation that received a response from the transport has
\* closed the body of that response when it returns, on every return path.
\* OverrideCollection, DeleteOverride and DeleteAPIKey never close it.
C16_BodyClosed ==
    (pc = "returned" /\ resp.t = "resp") => bodyClosed

\* C15: under any interleaving of concurrent calls on one client, no call
\* writes the client's configuration, and the result of each call is the
\* result the operation produces alone on the call's own arguments and the
\* transport's answer to the call's own request.
C15_CallsIndependent ==
    /\ masterNode = testMasterNode
    /\ \A p \in Callers :
           procs[p].pc = "returned"
               => \A alone \in {Handle(procs[p].op, procs[p].args, procs[p].answer)} :
                      /\ procs[p].result = alone.result
                      /\ procs[p].err = alone.err
                      /\ procs[p].sent = alone.calls

C15_Witness ==
    \E p, q \in Callers :
        /\ procs[p].pc = "returned"
        /\ procs[q].pc = "mapping"
        /\ procs[p].op = procs[q].op
        /\ procs[p].answer.t = "resp"
        /\ procs[q].answer.t = "resp"
        /\ procs[p].answer # procs[q].answer
        /\ procs[p].err # NilErr

====
